---- MODULE Spec2Model ----
(***************************************************************************)
(* Model of locustfile.py: the ProductAPIUser virtual user (on_start       *)
(* seeding, the four weighted tasks and their response checks), the        *)
(* weighted task selection, and the run-time around it (scheduler, stop    *)
(* signal, statistics sink).                                               *)
(***************************************************************************)
EXTENDS Integers, Sequences, FiniteSets, TLC

VARIABLES
    sched,      \* scheduler state: Idle, RampingUp, Steady, RampingDown, Stopped
    pc,         \* pc[u]: position of virtual user u
    pid,        \* pid[u]: product_id of the request u has in flight (<<>> if none)
    wrote,      \* wrote[u]: status of the write of u's running read_write_same_product
    inflight,   \* inflight[u]: number of requests of u that are in flight
    last,       \* the request event fired by the latest step (NoEvent otherwise)
    catalog,    \* the weighted tasks, in registration order
    draw,       \* selector: the latest draw (<<>> before the first)
    chosen,     \* selector: the task returned for the latest draw
    counts,     \* statistics sink: counter per (task, outcome)
    recorded,   \* statistics sink: number of completed record() calls
    lock,       \* statistics sink: holder of the critical section (0: free)
    apc,        \* apc[p]: position of producer p inside record()
    akey,       \* akey[p]: the counter producer p is recording to
    atmp,       \* atmp[p]: the counter value producer p has read
    snap,       \* the latest snapshot
    snapK       \* number of record() calls completed when snap was taken

userVars == <<sched, pc, pid, wrote, inflight, last>>
selVars  == <<draw, chosen>>
aggVars  == <<counts, recorded, lock, apc, akey, atmp, snap, snapK>>
vars     == <<sched, pc, pid, wrote, inflight, last, catalog, draw, chosen,
              counts, recorded, lock, apc, akey, atmp, snap, snapK>>

(***************************************************************************)
(* Bounds                                                                  *)
(***************************************************************************)
NumUsers == 2
MaxWeight == 3
MaxCatalogLen == 3
NumProducers == 2
MaxVerdicts == 3

Users == 1..NumUsers
Producers == 1..NumProducers

(***************************************************************************)
(* Program constants                                                       *)
(***************************************************************************)
\* PRODUCT_IDS = list(range(1, 21))
PRODUCT_IDS == 1..20
\* on_start: range(1, 6)
SEED_IDS == 1..5
\* read_write_same_product: random.randint(1, 5)
RAW_IDS == 1..5

\* status_code of the response object a failed transport (refused, timeout,
\* reset) yields: the client returns a response without a status, which reads 0.
TransportStatus == 0
StatusCodes == {TransportStatus, 200, 204, 404, 500}

POST_NAME == "/products/[id]/details [POST]"
GET_NAME == "/products/[id] [GET]"
GET_AFTER_WRITE_NAME == "/products/[id] [GET] (after write)"
HEALTH_NAME == "/healthz"

\* Bodies a GET /products/{id} may carry: text that is no JSON, JSON that is no
\* object (a list, null, a number), or an object with or without "product_id".
NoBody == [kind |-> "none", product_id |-> <<>>]
TextBody == [kind |-> "text", product_id |-> <<>>]
ArrayBody == [kind |-> "array", product_id |-> <<>>]
ObjectBody(ids) == [kind |-> "object", product_id |-> ids]
\* The identifiers a body for request p may name: p, another product, none.
OtherId(p) == (p % 20) + 1
Bodies(p) == {TextBody, ArrayBody, ObjectBody(<<>>), ObjectBody(<<p>>),
              ObjectBody(<<OtherId(p)>>)}

(***************************************************************************)
(* Marking a response inside the handler, and what is reported for it      *)
(***************************************************************************)
NoReason == [msg |-> "", args |-> <<>>]
Unmarked == [mark |-> "none", reason |-> NoReason, exc |-> ""]
\* response.success()
Success == [mark |-> "success", reason |-> NoReason, exc |-> ""]
\* response.failure(msg)
Failure(m, a) == [mark |-> "failure", reason |-> [msg |-> m, args |-> a], exc |-> ""]
\* an exception leaving the handler
Raised(e) == [mark |-> "none", reason |-> NoReason, exc |-> e]

\* What the client reports for a response nobody marked: a transport error and
\* every status from 400 on is a failure, anything else a success.
raise_for_status(status) ==
    IF status = TransportStatus
    THEN [recorded |-> TRUE, outcome |-> "failure",
          reason |-> [msg |-> "ConnectionError", args |-> <<>>]]
    ELSE IF status >= 400
    THEN [recorded |-> TRUE, outcome |-> "failure",
          reason |-> [msg |-> "HTTPError", args |-> <<status>>]]
    ELSE [recorded |-> TRUE, outcome |-> "success", reason |-> NoReason]

\* Leaving a `with self.client....(catch_response=True)` block: a marked response
\* is reported as marked; an unmarked one whose block raised is not reported and
\* the exception goes on; an unmarked one is reported by raise_for_status.
ContextExit(h, status) ==
    IF h.mark = "success"
    THEN [recorded |-> TRUE, outcome |-> "success", reason |-> NoReason,
          raised |-> h.exc # ""]
    ELSE IF h.mark = "failure"
    THEN [recorded |-> TRUE, outcome |-> "failure", reason |-> h.reason,
          raised |-> h.exc # ""]
    ELSE IF h.exc # ""
    THEN [recorded |-> FALSE, outcome |-> "none", reason |-> NoReason,
          raised |-> TRUE]
    ELSE [recorded |-> TRUE, outcome |-> raise_for_status(status).outcome,
          reason |-> raise_for_status(status).reason, raised |-> FALSE]

\* A request without catch_response is reported by raise_for_status before the
\* handler sees the (plain) response; what the handler does then changes nothing
\* of the report.
PlainExit(h, status) ==
    [recorded |-> TRUE, outcome |-> raise_for_status(status).outcome,
     reason |-> raise_for_status(status).reason, raised |-> h.exc # ""]

(***************************************************************************)
(* The handlers' checks                                                    *)
(***************************************************************************)
\* A write that accepts 200 and not 204.
create_product_check_200(status, log) ==
    IF status = 200
    THEN IF log THEN Success ELSE Unmarked
    ELSE Failure("Expected 204, got", <<status>>)

\* A write without its else branch.
create_product_check_noelse(status, log) ==
    IF status = 204 /\ log THEN Success ELSE Unmarked

\* create_product, lines 47-51
create_product_check(status, log) ==
    IF status = 204
    THEN IF log THEN Success ELSE Unmarked
    ELSE Failure("Expected 204, got", <<status>>)

\* read_product, lines 66-80
read_product_check(status, body, product_id) ==
    IF status = 200
    THEN IF body.kind = "text"
         THEN Failure("Invalid JSON response", <<>>)        \* json.JSONDecodeError
         ELSE IF body.kind # "object"
         THEN Raised("AttributeError")                      \* data.get on a non-dict
         ELSE IF body.product_id = <<product_id>>
         THEN Success
         ELSE Failure("Product ID mismatch: expected, got",
                      <<product_id>> \o body.product_id)
    ELSE IF status = 404
    THEN Success
    ELSE Failure("Unexpected status:", <<status>>)

\* A read-after-write that accepts 404 as the plain read does.
read_after_write_check_404(status) ==
    IF status = 200 \/ status = 404
    THEN Success
    ELSE Failure("Read after write failed:", <<status>>)

\* read_write_same_product, lines 108-112
read_after_write_check(status) ==
    IF status = 200
    THEN Success
    ELSE Failure("Read after write failed:", <<status>>)

\* health_check, lines 117-119: the response is the plain one, which has no
\* failure(): the call raises AttributeError.
health_check_check(status) ==
    IF status # 200 THEN Raised("AttributeError") ELSE Unmarked

(***************************************************************************)
(* Requests in flight                                                      *)
(***************************************************************************)
\* A request that is not waited for.
CompleteNoWait(n) == n

\* self.client.get / self.client.post: the call sends the request ...
Issue(n) == n + 1
\* ... and returns when the response is there
Complete(n) == n - 1

NoEvent == [user |-> 0, task |-> "none", name |-> "", log |-> FALSE,
            product_id |-> <<>>, wrote |-> <<>>, status |-> TransportStatus,
            body |-> NoBody, recorded |-> FALSE, outcome |-> "none",
            reason |-> NoReason, raised |-> FALSE]

Event(u, task, name, log, p, w, status, body, v) ==
    [user |-> u, task |-> task, name |-> name, log |-> log, product_id |-> p,
     wrote |-> w, status |-> status, body |-> body, recorded |-> v.recorded,
     outcome |-> v.outcome, reason |-> v.reason, raised |-> v.raised]

(***************************************************************************)
(* Weighted task selection                                                 *)
(***************************************************************************)
TaskNames == <<"read_product", "write_product", "read_write_same_product",
               "health_check">>

\* The tasks as registered: @task(7), @task(3), @task(1), @task(1).
ShippedCatalog ==
    <<[name |-> "read_product", weight |-> 7],
      [name |-> "write_product", weight |-> 3],
      [name |-> "read_write_same_product", weight |-> 1],
      [name |-> "health_check", weight |-> 1]>>

\* Catalogs of up to MaxCatalogLen tasks with weights up to MaxWeight, one task
\* at least having a positive weight (a user class with no task does not start).
CatalogOf(w) == [i \in DOMAIN w |-> [name |-> TaskNames[i], weight |-> w[i]]]
Catalogs ==
    {CatalogOf(w) : w \in
        {x \in UNION {[1..n -> 0..MaxWeight] : n \in 1..MaxCatalogLen} :
            \E i \in DOMAIN x : x[i] > 0}}

Repeat(x, n) == [i \in 1..n |-> x]

\* @task(weight): the task is put weight times into the user's task list.
RECURSIVE Tasks(_)
Tasks(cat) ==
    IF cat = <<>> THEN <<>>
    ELSE Repeat(Head(cat).name, Head(cat).weight) \o Tasks(Tail(cat))

TotalWeight(cat) == Len(Tasks(cat))

\* A selection that is off by one place (and wraps).
select_off_by_one(cat, d) == Tasks(cat)[((d + 1) % Len(Tasks(cat))) + 1]

\* The next task: a uniform choice in the task list, d its 0-based place.
select(cat, d) == Tasks(cat)[d + 1]

Selectable(cat, t) == \E d \in 0..(TotalWeight(cat) - 1) : select(cat, d) = t

(***************************************************************************)
(* The virtual user                                                        *)
(***************************************************************************)
InRun == sched \in {"RampingUp", "Steady"}

\* on_start, lines 21-25: the first seeding write is sent.
on_start(u) ==
    /\ pc' = [pc EXCEPT ![u] = "seed_wait"]
    /\ pid' = [pid EXCEPT ![u] = <<1>>]
    /\ inflight' = [inflight EXCEPT ![u] = Issue(@)]
    /\ last' = NoEvent
    /\ UNCHANGED wrote

\* on_start: a seeding write returns, with log=False; the next one is sent, or
\* the user enters its task loop.
seed_done(u) ==
    /\ pc[u] = "seed_wait"
    /\ \E status \in StatusCodes :
         last' = Event(u, "on_start", POST_NAME, FALSE, pid[u], <<>>, status, NoBody,
                       ContextExit(create_product_check(status, FALSE), status))
    /\ IF pid[u][1] + 1 \in SEED_IDS
       THEN /\ pid' = [pid EXCEPT ![u] = <<@[1] + 1>>]
            /\ inflight' = [inflight EXCEPT ![u] = Issue(Complete(@))]
            /\ pc' = pc
       ELSE /\ pid' = [pid EXCEPT ![u] = <<>>]
            /\ inflight' = [inflight EXCEPT ![u] = Complete(@)]
            /\ pc' = [pc EXCEPT ![u] = "ready"]
    /\ UNCHANGED <<sched, wrote, catalog, selVars, aggVars>>

\* A task is picked and sends its first request.
Begin(u, task, ids, next) ==
    /\ pc[u] = "ready"
    /\ InRun
    /\ Selectable(catalog, task)
    /\ \E p \in ids : pid' = [pid EXCEPT ![u] = p]
    /\ pc' = [pc EXCEPT ![u] = next]
    /\ inflight' = [inflight EXCEPT ![u] = Issue(@)]
    /\ last' = NoEvent
    /\ UNCHANGED <<sched, wrote, catalog, selVars, aggVars>>

\* A task is over (returned or raised: the task loop logs an exception and goes
\* on): the user waits its think time.
End(u) ==
    /\ pc' = [pc EXCEPT ![u] = "think"]
    /\ pid' = [pid EXCEPT ![u] = <<>>]
    /\ wrote' = [wrote EXCEPT ![u] = <<>>]
    /\ inflight' = [inflight EXCEPT ![u] = Complete(@)]
    /\ UNCHANGED <<sched, catalog, selVars, aggVars>>

\* read_product, lines 59-65
read_product(u) == Begin(u, "read_product", {<<p>> : p \in PRODUCT_IDS}, "read_wait")

\* read_product, lines 66-80
read_product_done(u) ==
    /\ pc[u] = "read_wait"
    /\ \E status \in StatusCodes :
         \E body \in IF status = 200 THEN Bodies(pid[u][1]) ELSE {NoBody} :
           last' = Event(u, "read_product", GET_NAME, TRUE, pid[u], <<>>, status, body,
                         ContextExit(read_product_check(status, body, pid[u][1]), status))
    /\ End(u)

\* write_product, lines 88-89, and create_product to the sending of the request
write_product(u) == Begin(u, "write_product", {<<p>> : p \in PRODUCT_IDS}, "write_wait")

\* create_product (log=True), lines 46-51
write_product_done(u) ==
    /\ pc[u] = "write_wait"
    /\ \E status \in StatusCodes :
         last' = Event(u, "write_product", POST_NAME, TRUE, pid[u], <<>>, status, NoBody,
                       ContextExit(create_product_check(status, TRUE), status))
    /\ End(u)

\* read_write_same_product, lines 97-100: the write is sent
read_write_same_product(u) ==
    Begin(u, "read_write_same_product", {<<p>> : p \in RAW_IDS}, "raw_write_wait")

\* read_write_same_product, lines 100-107: the write (log=False) returns and
\* the read of the same product is sent.
raw_write_done(u) ==
    /\ pc[u] = "raw_write_wait"
    /\ \E status \in StatusCodes :
         /\ last' = Event(u, "read_write_same_product", POST_NAME, FALSE, pid[u], <<>>,
                          status, NoBody,
                          ContextExit(create_product_check(status, FALSE), status))
         /\ wrote' = [wrote EXCEPT ![u] = <<status>>]
    /\ pc' = [pc EXCEPT ![u] = "raw_read_wait"]
    /\ inflight' = [inflight EXCEPT ![u] = Issue(Complete(@))]
    /\ UNCHANGED <<sched, pid, catalog, selVars, aggVars>>

\* read_write_same_product, lines 107-112
raw_read_done(u) ==
    /\ pc[u] = "raw_read_wait"
    /\ \E status \in StatusCodes :
         last' = Event(u, "read_write_same_product", GET_AFTER_WRITE_NAME, TRUE, pid[u],
                       wrote[u], status, NoBody,
                       ContextExit(read_after_write_check(status), status))
    /\ End(u)

\* health_check, line 117: the request is sent
health_check(u) == Begin(u, "health_check", {<<>>}, "health_wait")

\* health_check, lines 117-119
health_check_done(u) ==
    /\ pc[u] = "health_wait"
    /\ \E status \in StatusCodes :
         last' = Event(u, "health_check", HEALTH_NAME, FALSE, <<>>, <<>>, status, NoBody,
                       PlainExit(health_check_check(status), status))
    /\ End(u)

\* wait_time = between(0.5, 2): the think time is over
Wake(u) ==
    /\ pc[u] = "think"
    /\ pc' = [pc EXCEPT ![u] = "ready"]
    /\ last' = NoEvent
    /\ UNCHANGED <<sched, pid, wrote, inflight, catalog, selVars, aggVars>>

(***************************************************************************)
(* The scheduler                                                           *)
(***************************************************************************)
Start ==
    /\ sched = "Idle"
    /\ sched' = "RampingUp"
    /\ last' = NoEvent
    /\ UNCHANGED <<pc, pid, wrote, inflight, catalog, selVars, aggVars>>

\* A user is spawned and runs on_start; with the last one the run is Steady.
Spawn(u) ==
    /\ sched = "RampingUp"
    /\ pc[u] = "new"
    /\ on_start(u)
    /\ sched' = IF \A v \in Users \ {u} : pc[v] # "new" THEN "Steady" ELSE sched
    /\ UNCHANGED <<catalog, selVars, aggVars>>

\* The places of its loop where a user looks at the stop signal.
AtLoopBoundaryAnywhere(p) == p # "stopped"

AtLoopBoundary(p) == p = "ready"

StopSignal ==
    /\ sched = "Steady"
    /\ sched' = "RampingDown"
    /\ last' = NoEvent
    /\ UNCHANGED <<pc, pid, wrote, inflight, catalog, selVars, aggVars>>

\* The user sees the stop signal and exits.
ObserveStop(u) ==
    /\ sched = "RampingDown"
    /\ pc[u] # "stopped"
    /\ AtLoopBoundary(pc[u])
    /\ pc' = [pc EXCEPT ![u] = "stopped"]
    /\ pid' = [pid EXCEPT ![u] = <<>>]
    /\ wrote' = [wrote EXCEPT ![u] = <<>>]
    /\ inflight' = [inflight EXCEPT ![u] = 0]
    /\ last' = NoEvent
    /\ UNCHANGED <<sched, catalog, selVars, aggVars>>

AllStopped == \A u \in Users : pc[u] = "stopped"

Stopped ==
    /\ sched = "RampingDown"
    /\ AllStopped
    /\ sched' = "Stopped"
    /\ last' = NoEvent
    /\ UNCHANGED <<pc, pid, wrote, inflight, catalog, selVars, aggVars>>

(***************************************************************************)
(* The selector on its own                                                 *)
(***************************************************************************)
\* One draw of the selector.
Draw ==
    /\ \E d \in 0..(TotalWeight(catalog) - 1) :
         /\ draw' = <<d>>
         /\ chosen' = select(catalog, d)
    /\ UNCHANGED <<userVars, catalog, aggVars>>

(***************************************************************************)
(* The statistics sink                                                     *)
(***************************************************************************)
Outcomes == {"success", "failure"}
Keys == {<<TaskNames[i], o>> : i \in DOMAIN TaskNames, o \in Outcomes}

\* A critical section anybody may enter.
LockFreeAlways(l) == TRUE

LockFree(l) == l = 0

InProgress == Cardinality({p \in Producers : apc[p] # "idle"})

\* record(verdict): the producer enters the critical section ...
RecordEnter(p) ==
    /\ apc[p] = "idle"
    /\ recorded + InProgress < MaxVerdicts
    /\ LockFree(lock)
    /\ lock' = p
    /\ \E k \in Keys : akey' = [akey EXCEPT ![p] = k]
    /\ apc' = [apc EXCEPT ![p] = "locked"]
    /\ UNCHANGED <<userVars, catalog, selVars, counts, recorded, atmp, snap, snapK>>

\* ... reads the counter of the verdict's (task, outcome) ...
RecordRead(p) ==
    /\ apc[p] = "locked"
    /\ atmp' = [atmp EXCEPT ![p] = counts[akey[p]]]
    /\ apc' = [apc EXCEPT ![p] = "read"]
    /\ UNCHANGED <<userVars, catalog, selVars, counts, recorded, lock, akey, snap, snapK>>

\* ... writes it back, one greater ...
RecordWrite(p) ==
    /\ apc[p] = "read"
    /\ counts' = [counts EXCEPT ![akey[p]] = atmp[p] + 1]
    /\ recorded' = recorded + 1
    /\ apc' = [apc EXCEPT ![p] = "written"]
    /\ UNCHANGED <<userVars, catalog, selVars, lock, akey, atmp, snap, snapK>>

\* ... and leaves the critical section.
RecordExit(p) ==
    /\ apc[p] = "written"
    /\ lock' = 0
    /\ apc' = [apc EXCEPT ![p] = "idle"]
    /\ akey' = [akey EXCEPT ![p] = <<>>]
    /\ atmp' = [atmp EXCEPT ![p] = 0]
    /\ UNCHANGED <<userVars, catalog, selVars, counts, recorded, snap, snapK>>

\* snapshot(): a copy of the counter table, taken inside the critical section.
Snapshot ==
    /\ LockFree(lock)
    /\ snap' = counts
    /\ snapK' = recorded
    /\ UNCHANGED <<userVars, catalog, selVars, counts, recorded, lock, apc, akey, atmp>>

(***************************************************************************)
(* Specifications                                                          *)
(***************************************************************************)
SelIdle == draw = <<>> /\ chosen = ""
AggIdle ==
    /\ counts = [k \in Keys |-> 0]
    /\ recorded = 0
    /\ lock = 0
    /\ apc = [p \in Producers |-> "idle"]
    /\ akey = [p \in Producers |-> <<>>]
    /\ atmp = [p \in Producers |-> 0]
    /\ snap = [k \in Keys |-> 0]
    /\ snapK = 0

UsersInit ==
    /\ sched = "Idle"
    /\ pc = [u \in Users |-> "new"]
    /\ pid = [u \in Users |-> <<>>]
    /\ wrote = [u \in Users |-> <<>>]
    /\ inflight = [u \in Users |-> 0]
    /\ last = NoEvent

Init == UsersInit /\ catalog = ShippedCatalog /\ SelIdle /\ AggIdle

UserStep(u) ==
    \/ seed_done(u)
    \/ read_product(u)
    \/ read_product_done(u)
    \/ write_product(u)
    \/ write_product_done(u)
    \/ read_write_same_product(u)
    \/ raw_write_done(u)
    \/ raw_read_done(u)
    \/ health_check(u)
    \/ health_check_done(u)
    \/ Wake(u)

Next ==
    \/ Start
    \/ \E u \in Users : Spawn(u)
    \/ \E u \in Users : UserStep(u)

\* The run without a stop signal.
Spec == Init /\ [][Next]_vars

NextStop ==
    \/ Next
    \/ StopSignal
    \/ \E u \in Users : ObserveStop(u)
    \/ Stopped

\* The run with a stop signal. The run does not halt while a step is possible:
\* a request sent is answered (or fails), a think time ends, a user at its loop
\* boundary runs on, the scheduler notices that all users have exited.
SpecStop ==
    /\ Init
    /\ [][NextStop]_vars
    /\ WF_vars(NextStop)

\* The selector: a catalog is loaded, then draws are served.
InitSel ==
    /\ UsersInit /\ SelIdle /\ AggIdle
    /\ catalog \in Catalogs \cup {ShippedCatalog}

SpecSel == InitSel /\ [][Draw]_vars

\* The statistics sink with its producers and a reader taking snapshots.
NextAgg ==
    \/ \E p \in Producers : RecordEnter(p) \/ RecordRead(p) \/ RecordWrite(p) \/ RecordExit(p)
    \/ Snapshot

SpecAgg == Init /\ [][NextAgg]_vars

(***************************************************************************)
(* Properties                                                              *)
(***************************************************************************)
IsFailure(e) == e.recorded /\ e.outcome = "failure"
IsSuccess(e) == e.recorded /\ e.outcome = "success"
Verdict(e) == e.recorded /\ e.outcome \in Outcomes /\ (e.outcome = "success" <=> e.reason = NoReason)

\* The user is in its run and goes on: with the next request of its task or
\* with the next task.
Proceeds(u) == pc[u] \in {"seed_wait", "ready", "raw_read_wait", "think"}

\* C1: the read of a read_write_same_product is recorded as a success if and
\* only if its status is 200, whatever the status of the write before it; every
\* other status, 404 included, is recorded as a failure.
C1_ReadAfterWrite ==
    last.name = GET_AFTER_WRITE_NAME =>
        /\ Verdict(last)
        /\ last.wrote # <<>>
        /\ IsSuccess(last) <=> last.status = 200
        /\ last.status # 200 => IsFailure(last)

C1_Witness ==
    /\ last.name = GET_AFTER_WRITE_NAME
    /\ last.wrote = <<204>>
    /\ last.status = 404
    /\ IsFailure(last)

\* The reason the code gives for a body that is no JSON.
MalformedBody(r) == r.msg = "Invalid JSON response"

\* C2: a read_product is a success if and only if the status is 404, or it is
\* 200 and the body's product_id is the requested one; a 200 whose body is not
\* the expected structure is a failure for a malformed body, a 200 with another
\* identifier a failure naming the expected and the observed identifier, any
\* other status a failure.
C2_PlainRead ==
    last.task = "read_product" =>
        /\ Verdict(last)
        /\ IsSuccess(last) <=>
              \/ last.status = 404
              \/ /\ last.status = 200
                 /\ last.body.kind = "object"
                 /\ last.body.product_id = last.product_id
        /\ (last.status = 200 /\ last.body.kind # "object") =>
              IsFailure(last) /\ MalformedBody(last.reason)
        /\ (last.status = 200 /\ last.body.kind = "object"
                /\ last.body.product_id # last.product_id) =>
              IsFailure(last) /\ last.reason.args = last.product_id \o last.body.product_id
        /\ last.status \notin {200, 404} => IsFailure(last)

\* C3: a write (create_product), from write_product, from on_start or from
\* read_write_same_product, is a success if and only if the status is 204; any
\* other status, a transport error's included, is a failure whose reason is the
\* observed status.
C3_Write ==
    last.name = POST_NAME =>
        /\ Verdict(last)
        /\ last.task \in {"on_start", "write_product", "read_write_same_product"}
        /\ last.log <=> last.task = "write_product"
        /\ IsSuccess(last) <=> last.status = 204
        /\ last.status # 204 =>
              IsFailure(last) /\ last.reason.args = <<last.status>>

C3_Witness ==
    /\ last.name = POST_NAME
    /\ last.task = "read_write_same_product"
    /\ ~last.log
    /\ last.status = 204
    /\ IsSuccess(last)

\* C4: a health check is a success if and only if the status is 200; every
\* other status is recorded as a failure.
C4_Health ==
    last.task = "health_check" =>
        /\ Verdict(last)
        /\ IsSuccess(last) <=> last.status = 200
        /\ last.status # 200 => IsFailure(last)

\* C5: every task ends by recording a verdict and not by raising, whatever the
\* response, and the user goes on.
C5_Absorbed ==
    last.user # 0 =>
        /\ Verdict(last)
        /\ ~last.raised
        /\ Proceeds(last.user)

\* A reason with the prefix "transport:"; the code has no such reason.
TransportPrefixed(r) == r.msg = "transport:"

Waiting(p) == p \in {"seed_wait", "read_wait", "write_wait", "raw_write_wait",
                     "raw_read_wait", "health_wait"}

\* C7: a user has at most one request in flight: it sends its next request (the
\* read of a read-after-write, the task after the seeding) only when the one
\* before has returned; the requests of different users overlap freely.
C7_OneInFlight ==
    \A u \in Users :
        /\ inflight[u] \in {0, 1}
        /\ inflight[u] = 1 <=> Waiting(pc[u])

C7_Witness ==
    \E u, v \in Users :
        /\ u # v
        /\ pc[u] = "raw_read_wait" /\ inflight[u] = 1
        /\ pc[v] = "seed_wait" /\ pid[v] = <<2>> /\ inflight[v] = 1

\* C8: after a stop signal no request in flight is dropped (a request leaves
\* the flight only with its response), a user exits only from the boundary of
\* its loop, the scheduler is Stopped only when every user has exited with
\* nothing in flight, and it does become Stopped.
C8_GracefulStop ==
    /\ [](sched = "Stopped" => \A u \in Users : pc[u] = "stopped" /\ inflight[u] = 0)
    /\ [][\A u \in Users :
            /\ (inflight[u] > 0 /\ inflight'[u] = 0) =>
                  (last'.user = u /\ last'.task # "none")
            /\ (pc[u] # "stopped" /\ pc'[u] = "stopped") =>
                  (sched = "RampingDown" /\ pc[u] = "ready" /\ inflight[u] = 0)
            /\ pc[u] = "stopped" => pc'[u] = "stopped"]_vars
    /\ (sched = "RampingDown") ~> (sched = "Stopped")

C8_Witness ==
    /\ sched = "RampingDown"
    /\ \E u, v \in Users : pc[u] = "stopped" /\ pc[v] = "read_wait" /\ inflight[v] = 1

RECURSIVE SumOver(_, _)
SumOver(f, S) ==
    IF S = {} THEN 0
    ELSE LET k == CHOOSE x \in S : TRUE IN f[k] + SumOver(f, S \ {k})

Total(tbl) == SumOver(tbl, DOMAIN tbl)

\* C9: whatever the interleaving of record() and snapshot(), the counts of the
\* table and of every snapshot sum to the number of verdicts recorded by then,
\* and no counter ever decreases.
C9_Aggregator ==
    /\ [](Total(counts) = recorded /\ Total(snap) = snapK)
    /\ [][\A k \in Keys : counts'[k] >= counts[k]]_vars

C9_Witness ==
    /\ recorded = MaxVerdicts
    /\ snapK = recorded
    /\ Total(snap) = MaxVerdicts
    /\ \E k \in Keys : snap[k] >= 2

RECURSIVE WeightBefore(_, _)
WeightBefore(cat, i) == IF i = 1 THEN 0 ELSE WeightBefore(cat, i - 1) + cat[i - 1].weight

DrawsFor(cat, t) == {d \in 0..(TotalWeight(cat) - 1) : select(cat, d) = t}

====
